---- MODULE Spec2Model ----
(***************************************************************************)
(* Tonnetz lattice engine: pitch classes on the integer lattice, the six   *)
(* lattice neighbours, and findChordLayout, the bounded breadth-first      *)
(* search that embeds a chord shape at a root.  findChordLayout is         *)
(* modelled statement by statement: one action per loop step, the locals   *)
(* of the function as variables.                                           *)
(***************************************************************************)
EXTENDS Integers, Sequences, FiniteSets, TLC

\* Roots are drawn from -MaxCoord..MaxCoord in both coordinates.
MaxCoord == 1
\* Interval lists have at most MaxLen entries.
MaxLen == 3
\* The semitone values the free interval lists are built from: the root's own
\* pitch class (0, 12), a pitch class no neighbour has (2), neighbour pitch
\* classes (3, 4), and a negative interval (-5, a fifth below the octave).
IntervalValues == {-5, 0, 2, 3, 4, 12}

VARIABLES
  rootLx, rootLy, intervals,  \* the arguments of findChordLayout
  selected,                   \* const selected = [...]
  rootPC,                     \* const rootPC
  i,                          \* index of the for loop (0-based, as in the source)
  targetPC,                   \* const targetPC of the current iteration
  queue,                      \* const queue: {lx, ly, dist}[]
  visited,                    \* const visited = new Set<string>()
  found,                      \* let found = null
  head,                       \* let head = 0
  pc                          \* position in the function

vars == <<rootLx, rootLy, intervals, selected, rootPC, i, targetPC,
          queue, visited, found, head, pc>>

\* The application around findChordLayout: the hooks of App and of TonnetzGrid.
VARIABLES
  activeNodeIds,              \* useState<Set<string>>(new Set())
  rootNode,                   \* useState<RootNodeInfo | null>(null)
  selectedChord,              \* useState<string | null>(null)
  zoomLevel,                  \* useState<number>(1), in tenths
  viewMode,                   \* useState<ViewMode>('notes')
  lastSelectedChordId,        \* useState<string | null>(null)
  pan,                        \* TonnetzGrid: useState({ x: 0, y: 0 })
  isDragging,                 \* TonnetzGrid: useState(false)
  dragStart,                  \* TonnetzGrid: useRef({ x: 0, y: 0 })
  called,                     \* the handler of App invoked last, with its arguments
  raised                      \* whether that invocation ended in a TypeError

appVars == <<activeNodeIds, rootNode, selectedChord, zoomLevel, viewMode,
             lastSelectedChordId>>

gridVars == <<pan, isDragging, dragStart>>

obsVars == <<called, raised>>

\* The other tools of the application: playChord of utils/audio and the scale
\* controls of Fretboard.
VARIABLES
  notes, baseOctave,          \* playChord: the arguments
  index,                      \* playChord: the index of the next callback of notes.map
  lastMidiValue,              \* playChord: let lastMidiValue = -1
  notesWithOctave,            \* playChord: the strings the callbacks have returned
  attack,                     \* playChord: the array given to triggerAttackRelease, null before
  scaleRoot,                  \* Fretboard: useState<string>('A')
  scaleConfig,                \* Fretboard: useState<ScaleConfig>
  highlightedPoints           \* Fretboard: useMemo over scaleRoot and scaleConfig

audioVars == <<notes, baseOctave, index, lastMidiValue, notesWithOctave, attack>>

fretVars == <<scaleRoot, scaleConfig, highlightedPoints>>

toolVars == <<audioVars, fretVars>>

allVars == <<vars, appVars, gridVars, obsVars, toolVars>>

----------------------------------------------------------------------------
\* JavaScript's % : the remainder has the sign of the dividend.
Rem(n, m) == IF n >= 0 THEN n % m ELSE -((-n) % m)

\* Variant: the remainder alone, without the wrap into 0..m-1.
modNoWrap(n, m) == Rem(n, m)

\* export const mod = (n, m) => ((n % m) + m) % m
mod(n, m) == Rem(Rem(n, m) + m, m)

\* Variant: the two generating intervals exchanged.
getPitchClassSwapped(lx, ly) == mod(lx * 4 + ly * 7, 12)

\* export const getPitchClass = (lx, ly) => mod(lx * 7 + ly * 4, 12)
getPitchClass(lx, ly) == mod(lx * 7 + ly * 4, 12)

Point(lx, ly) == [lx |-> lx, ly |-> ly]

\* Variant: the third and fourth neighbour exchanged.
getNeighborsReordered(lx, ly) ==
  << Point(lx + 1, ly),
     Point(lx - 1, ly),
     Point(lx, ly - 1),
     Point(lx, ly + 1),
     Point(lx + 1, ly - 1),
     Point(lx - 1, ly + 1) >>

\* export const getNeighbors = (lx, ly) => [ ... ]
getNeighbors(lx, ly) ==
  << Point(lx + 1, ly),
     Point(lx - 1, ly),
     Point(lx, ly + 1),
     Point(lx, ly - 1),
     Point(lx + 1, ly - 1),
     Point(lx - 1, ly + 1) >>

\* Variant: the signs of the coordinates are left out of the key.
keyUnsigned(lx, ly) ==
  ToString(IF lx < 0 THEN -lx ELSE lx) \o "," \o ToString(IF ly < 0 THEN -ly ELSE ly)

\* The template literal `${lx},${ly}`.
key(lx, ly) == ToString(lx) \o "," \o ToString(ly)

\* let found = null
NULL == <<>>

\* The search state the closure enqueue writes to.
SearchState(q, v) == [queue |-> q, visited |-> v]

\* Variant: no test of the visited set.
enqueueUnchecked(st, lx, ly, dist) ==
  SearchState(Append(st.queue, [lx |-> lx, ly |-> ly, dist |-> dist]),
              st.visited \cup {key(lx, ly)})

\* const enqueue = (lx, ly, dist) => { if (!visited.has(key)) { ... } }
enqueue(st, lx, ly, dist) ==
  LET k == key(lx, ly)
  IN  IF k \notin st.visited
        THEN SearchState(Append(st.queue, [lx |-> lx, ly |-> ly, dist |-> dist]),
                         st.visited \cup {k})
        ELSE st

\* getNeighbors(lx, ly).forEach(n => enqueue(n.lx, n.ly, dist)), from the
\* k-th neighbour on.
RECURSIVE enqueueFrom(_, _, _, _)
enqueueFrom(st, ns, k, dist) ==
  IF k > Len(ns)
    THEN st
    ELSE enqueueFrom(enqueue(st, ns[k].lx, ns[k].ly, dist), ns, k + 1, dist)

enqueueNeighbors(st, lx, ly, dist) == enqueueFrom(st, getNeighbors(lx, ly), 1, dist)

\* Variant: only the last selected node is marked.
markSelectedLast(sel) == { key(sel[Len(sel)].lx, sel[Len(sel)].ly) }

\* selected.forEach(n => visited.add(`${n.lx},${n.ly}`))
markSelected(sel) == { key(sel[k].lx, sel[k].ly) : k \in 1..Len(sel) }

\* Priority 2: for (let j = 0; j < selected.length - 1; j++) { ... }, from j on.
RECURSIVE seedOthers(_, _, _)
seedOthers(st, sel, j) ==
  IF j < Len(sel) - 1
    THEN seedOthers(enqueueNeighbors(st, sel[j + 1].lx, sel[j + 1].ly, 1), sel, j + 1)
    ELSE st

\* Variant: the seeds are enqueued at depth 2.
seedQueueDepthTwo(sel) ==
  LET lastNode == sel[Len(sel)]
      st0 == SearchState(<<>>, markSelected(sel))
  IN  seedOthers(enqueueNeighbors(st0, lastNode.lx, lastNode.ly, 2), sel, 0)

\* Variant: only the neighbours of the last selected node are seeded.
seedQueueLastOnly(sel) ==
  LET lastNode == sel[Len(sel)]
      st0 == SearchState(<<>>, markSelected(sel))
  IN  enqueueNeighbors(st0, lastNode.lx, lastNode.ly, 1)

\* Variant: the selected nodes are seeded in embedding order, the last one last.
seedQueueInOrder(sel) ==
  seedOthers(SearchState(<<>>, markSelected(sel)), sel \o <<sel[Len(sel)]>>, 0)

\* Priority 1 (the last selected node), then priority 2.
seedQueue(sel) ==
  LET lastNode == sel[Len(sel)]
      st0 == SearchState(<<>>, markSelected(sel))
  IN  seedOthers(enqueueNeighbors(st0, lastNode.lx, lastNode.ly, 1), sel, 0)

\* Variant: the interval counted downwards.
targetMinus(rpc, interval) == mod(rpc - interval, 12)

\* const targetPC = mod(rootPC + intervals[i], 12)
targetOf(rpc, interval) == mod(rpc + interval, 12)

\* Variant: the coordinates of the root exchanged.
initialSelectedSwapped(lx, ly) == << Point(ly, lx) >>

\* const selected = [{lx: rootLx, ly: rootLy}]
initialSelected(lx, ly) == << Point(lx, ly) >>

\* Variant: the coordinates passed in the wrong order.
isTargetTransposed(curr, target) == getPitchClass(curr.ly, curr.lx) = target

\* if (getPitchClass(curr.lx, curr.ly) === targetPC)
isTarget(curr, target) == getPitchClass(curr.lx, curr.ly) = target

\* The bound of the search radius: if (curr.dist < 4)
MaxDist == 4

\* Variant: no dequeued point is expanded.
expandsNever(curr) == curr.dist < 1

expands(curr) == curr.dist < MaxDist

----------------------------------------------------------------------------
Coords == -MaxCoord..MaxCoord

RECURSIVE SeqsUpTo(_, _)
SeqsUpTo(S, n) ==
  IF n = 0
    THEN {<<>>}
    ELSE LET shorter == SeqsUpTo(S, n - 1)
         IN  shorter \cup { Append(s, x) : s \in shorter, x \in S }

\* export const CHORDS: Record<string, ChordDefinition>, each key's intervals.
CHORDS ==
  [ Major      |-> <<0, 4, 7>>,
    Minor      |-> <<0, 3, 7>>,
    Augmented  |-> <<0, 4, 8>>,
    Diminished |-> <<0, 3, 6>>,
    Sus2       |-> <<0, 2, 7>>,
    Sus4       |-> <<0, 5, 7>>,
    Maj6       |-> <<0, 4, 7, 9>>,
    Min6       |-> <<0, 3, 7, 9>>,
    Add9       |-> <<0, 4, 7, 2>>,
    Maj7       |-> <<0, 4, 7, 11>>,
    Min7       |-> <<0, 3, 7, 10>>,
    Dom7       |-> <<0, 4, 7, 10>>,
    HalfDim7   |-> <<0, 3, 6, 10>>,
    Dim7       |-> <<0, 3, 6, 9>>,
    Maj9       |-> <<0, 4, 7, 11, 2>>,
    Min9       |-> <<0, 3, 7, 10, 2>>,
    Dom9       |-> <<0, 4, 7, 10, 2>>,
    Maj11      |-> <<0, 4, 7, 11, 2, 5>>,
    Maj13      |-> <<0, 4, 7, 11, 2, 9>> ]

ChordShapes == { CHORDS[c] : c \in DOMAIN CHORDS }

\* Lists whose first entry is not 0: the loop starts at i = 1 and never reads
\* intervals[0].
OffRootLists == { <<7>>, <<5, 4, 7>>, <<12, 0, 12>> }

\* The interval lists a call is given: the empty list, every list of at most
\* MaxLen entries that starts with 0, the shapes of CHORDS, and OffRootLists.
IntervalLists ==
  {<<>>}
    \cup { <<0>> \o s : s \in SeqsUpTo(IntervalValues, MaxLen - 1) }
    \cup ChordShapes
    \cup OffRootLists

\* The state on entry to the for loop: selected = [root], rootPC computed.
\* A nullable value is a sequence of length at most one: <<>> is null.
Some(x) == <<x>>

\* No handler invoked yet.
NoCall == [op |-> "none", key |-> "", id |-> <<>>, nums |-> <<>>]

\* const [zoomLevel, setZoomLevel] = useState<number>(1), in tenths.
InitialZoom == 10

\* The rest of the state while findChordLayout runs.
restVars == <<appVars, gridVars, obsVars, toolVars>>

\* The hooks after the first render of App and TonnetzGrid.
AppInit ==
  /\ activeNodeIds = {}
  /\ rootNode = <<>>
  /\ selectedChord = <<>>
  /\ zoomLevel = InitialZoom
  /\ viewMode = "notes"
  /\ lastSelectedChordId = <<>>

GridInit ==
  /\ pan = <<0, 0>>
  /\ isDragging = FALSE
  /\ dragStart = <<0, 0>>

ObsInit ==
  /\ called = NoCall
  /\ raised = FALSE

\* No call of playChord is running.
AudioIdle ==
  /\ notes = <<>>
  /\ baseOctave = 4
  /\ index = 0
  /\ lastMidiValue = -1
  /\ notesWithOctave = <<>>
  /\ attack = <<>>

\* The Tonnetz tab is shown: Fretboard is not mounted and has no state.
FretboardUnmounted ==
  /\ scaleRoot = <<>>
  /\ scaleConfig = <<>>
  /\ highlightedPoints = {}

OtherToolsIdle == AudioIdle /\ FretboardUnmounted

Init ==
  /\ rootLx \in Coords
  /\ rootLy \in Coords
  /\ intervals \in IntervalLists
  /\ selected = initialSelected(rootLx, rootLy)
  /\ rootPC = getPitchClass(rootLx, rootLy)
  /\ i = 1
  /\ targetPC = 0
  /\ queue = <<>>
  /\ visited = {}
  /\ found = NULL
  /\ head = 0
  /\ pc = "for"

\* One iteration of the for loop up to the while loop: target, visited set,
\* seeds, found = null, head = 0.
ForBody ==
  /\ pc = "for"
  /\ i < Len(intervals)
  /\ LET st == seedQueue(selected)
     IN  /\ targetPC' = targetOf(rootPC, intervals[i + 1])
         /\ queue' = st.queue
         /\ visited' = st.visited
  /\ found' = NULL
  /\ head' = 0
  /\ pc' = "while"
  /\ UNCHANGED <<rootLx, rootLy, intervals, selected, rootPC, i>>
  /\ UNCHANGED restVars

\* One iteration of while (head < queue.length), or its exit.
WhileStep ==
  /\ pc = "while"
  /\ IF head < Len(queue)
       THEN LET curr == queue[head + 1]
            IN  /\ head' = head + 1
                /\ IF isTarget(curr, targetPC)
                     THEN /\ found' = <<curr>>
                          /\ pc' = "if"
                          /\ UNCHANGED <<queue, visited>>
                     ELSE /\ LET st == IF expands(curr)
                                         THEN enqueueNeighbors(SearchState(queue, visited),
                                                               curr.lx, curr.ly, curr.dist + 1)
                                         ELSE SearchState(queue, visited)
                             IN  /\ queue' = st.queue
                                 /\ visited' = st.visited
                          /\ UNCHANGED <<found, pc>>
       ELSE /\ pc' = "if"
            /\ UNCHANGED <<head, found, queue, visited>>
  /\ UNCHANGED <<rootLx, rootLy, intervals, selected, rootPC, i, targetPC>>
  /\ UNCHANGED restVars

\* if (found) selected.push(...), then i++.
PushFound ==
  /\ pc = "if"
  /\ selected' = IF found # NULL
                   THEN Append(selected, Point(found[1].lx, found[1].ly))
                   ELSE selected
  /\ i' = i + 1
  /\ pc' = "for"
  /\ UNCHANGED <<rootLx, rootLy, intervals, rootPC, targetPC, queue, visited, found, head>>
  /\ UNCHANGED restVars

\* return selected
Return ==
  /\ pc = "for"
  /\ ~(i < Len(intervals))
  /\ pc' = "done"
  /\ UNCHANGED <<rootLx, rootLy, intervals, selected, rootPC, i, targetPC,
                 queue, visited, found, head>>
  /\ UNCHANGED restVars

Next == ForBody \/ WhileStep \/ PushFound \/ Return

\* One call of findChordLayout, the application at rest.
LayoutInit == Init /\ AppInit /\ GridInit /\ ObsInit /\ OtherToolsIdle

Spec == LayoutInit /\ [][Next]_allVars

----------------------------------------------------------------------------
\* findChordLayout as a function of its arguments, for the handlers that call
\* it: the same statements as the actions above, run to the return.

\* while (head < queue.length) { ... }: the value of found at the loop's exit.
RECURSIVE searchFrom(_, _, _)
searchFrom(st, h, target) ==
  IF h < Len(st.queue)
    THEN LET curr == st.queue[h + 1]
         IN  IF isTarget(curr, target)
               THEN <<curr>>
               ELSE searchFrom(IF expands(curr)
                                 THEN enqueueNeighbors(st, curr.lx, curr.ly, curr.dist + 1)
                                 ELSE st,
                               h + 1, target)
    ELSE NULL

\* for (let i = 1; i < intervals.length; i++) { ... }, from index k on.
RECURSIVE layoutFrom(_, _, _, _)
layoutFrom(sel, rpc, ivs, k) ==
  IF k < Len(ivs)
    THEN LET f == searchFrom(seedQueue(sel), 0, targetOf(rpc, ivs[k + 1]))
         IN  layoutFrom(IF f # NULL THEN Append(sel, Point(f[1].lx, f[1].ly)) ELSE sel,
                        rpc, ivs, k + 1)
    ELSE sel

\* export const findChordLayout = (rootLx, rootLy, intervals) => { ... }
findChordLayout(rLx, rLy, ivs) ==
  layoutFrom(initialSelected(rLx, rLy), getPitchClass(rLx, rLy), ivs, 1)

----------------------------------------------------------------------------
\* Strings are sequences of one-character strings, so that the id formats can
\* be split and parsed as the source does.

Digits == <<"0", "1", "2", "3", "4", "5", "6", "7", "8", "9">>

\* The decimal digits of a natural number.
RECURSIVE NatStr(_)
NatStr(n) == IF n < 10 THEN <<Digits[n + 1]>> ELSE NatStr(n \div 10) \o <<Digits[(n % 10) + 1]>>

\* Variant: the sign of a negative number is dropped.
NumStrUnsigned(n) == IF n < 0 THEN NatStr(-n) ELSE NatStr(n)

\* An integer inside a template literal: `${n}`.
NumStr(n) == IF n < 0 THEN <<"-">> \o NatStr(-n) ELSE NatStr(n)

\* A number that may be NaN: <<n>> is the number n, <<>> is NaN.
NaN == <<>>

\* `${x}` for a number that may be NaN.
JsNumStr(x) == IF x = NaN THEN <<"N", "a", "N">> ELSE NumStr(x[1])

\* The id of a note: `${lx},${ly}`.
noteId(lx, ly) == NumStr(lx) \o <<",">> \o NumStr(ly)

\* The id of a chord region: `${type}:${clx},${cly}`, type a string.
chordId(type, clx, cly) == type \o <<":">> \o JsNumStr(clx) \o <<",">> \o JsNumStr(cly)

\* The value an array gives outside its bounds.
UNDEFINED == <<"undefined">>

\* parts[k] of a JavaScript array (0-based).
At(arr, k) == IF k + 1 <= Len(arr) THEN arr[k + 1] ELSE UNDEFINED

\* String.prototype.split with a one-character separator.
RECURSIVE splitFrom(_, _, _, _)
splitFrom(str, sep, k, cur) ==
  IF k > Len(str)
    THEN <<cur>>
    ELSE IF str[k] = sep
           THEN <<cur>> \o splitFrom(str, sep, k + 1, <<>>)
           ELSE splitFrom(str, sep, k + 1, Append(cur, str[k]))

split(str, sep) == splitFrom(str, sep, 1, <<>>)

DigitValue(c) == CHOOSE d \in 0..9 : Digits[d + 1] = c

IsDigit(c) == \E d \in 0..9 : Digits[d + 1] = c

\* The value of the longest run of digits of str from position k on, given
\* the value acc of the digits before k.
RECURSIVE digitsFrom(_, _, _)
digitsFrom(str, k, acc) ==
  IF k <= Len(str) /\ IsDigit(str[k])
    THEN digitsFrom(str, k + 1, 10 * acc + DigitValue(str[k]))
    ELSE acc

\* Variant: a leading minus sign is not accepted.
parseIntNoSign(str) ==
  IF str # UNDEFINED /\ Len(str) >= 1 /\ IsDigit(str[1])
    THEN <<digitsFrom(str, 1, 0)>>
    ELSE NaN

\* parseInt(str): an optional sign, then the leading digits; NaN without any.
\* parseInt(undefined) is NaN.
parseInt(str) ==
  IF str = UNDEFINED
    THEN NaN
    ELSE LET neg == Len(str) >= 1 /\ str[1] = "-"
             pos == Len(str) >= 1 /\ str[1] = "+"
             k == IF neg \/ pos THEN 2 ELSE 1
         IN  IF k <= Len(str) /\ IsDigit(str[k])
               THEN <<(IF neg THEN -1 ELSE 1) * digitsFrom(str, k, 0)>>
               ELSE NaN

----------------------------------------------------------------------------
\* App: the handlers.  A handler that throws leaves the hooks as they were,
\* since every setState of the handlers comes after the throwing statement.

\* handleZoomOut: Math.max(prev - 0.1, 0.4), in tenths.
MinZoom == 4

\* handleZoomIn: Math.min(prev + 0.1, 2.5), in tenths.
MaxZoom == 25

\* Variant: the offsets of the two seconds exchanged for those of the thirds.
INTERVAL_OFFSETS_SHUFFLED ==
  [name \in {"5th", "4th", "Maj 3rd", "Min 3rd", "Maj 2nd", "Min 2nd"} |->
     CASE name = "5th"     -> [dx |-> 1, dy |-> 0]
       [] name = "4th"     -> [dx |-> -1, dy |-> 0]
       [] name = "Maj 3rd" -> [dx |-> 2, dy |-> 0]
       [] name = "Min 3rd" -> [dx |-> -1, dy |-> 2]
       [] name = "Maj 2nd" -> [dx |-> 0, dy |-> 1]
       [] name = "Min 2nd" -> [dx |-> 1, dy |-> -1]]

\* const INTERVAL_OFFSETS: Record<string, {dx: number, dy: number}>
INTERVAL_OFFSETS ==
  [name \in {"5th", "4th", "Maj 3rd", "Min 3rd", "Maj 2nd", "Min 2nd"} |->
     CASE name = "5th"     -> [dx |-> 1, dy |-> 0]
       [] name = "4th"     -> [dx |-> -1, dy |-> 0]
       [] name = "Maj 3rd" -> [dx |-> 0, dy |-> 1]
       [] name = "Min 3rd" -> [dx |-> 1, dy |-> -1]
       [] name = "Maj 2nd" -> [dx |-> 2, dy |-> 0]
       [] name = "Min 2nd" -> [dx |-> -1, dy |-> 2]]

\* An uncaught TypeError: the handler stops before any setState.
Throws ==
  /\ raised' = TRUE
  /\ UNCHANGED appVars

\* An early return.
Returns ==
  /\ raised' = FALSE
  /\ UNCHANGED appVars

\* if (newSet.has(id)) newSet.delete(id); else newSet.add(id);
toggle(set, id) == IF id \in set THEN set \ {id} ELSE set \cup {id}

\* findChordLayout(lx, ly, intervals) for every chord of CHORDS at every root
\* of Coords: the calls with their results, computed once.
chordLayouts ==
  { <<ivs, p, findChordLayout(p[1], p[2], ivs)>> : ivs \in ChordShapes, p \in Coords \X Coords }

\* Variant: the new ids are added to the ids already active.
layoutIdsKept(lx, ly, ivs) ==
  LET chordNodes == findChordLayout(lx, ly, ivs)
  IN  activeNodeIds \cup
        { noteId(chordNodes[k].lx, chordNodes[k].ly) : k \in 1..Len(chordNodes) }

\* const newActiveIds = new Set<string>(); chordNodes.forEach(node =>
\* newActiveIds.add(`${node.lx},${node.ly}`)).
\* The result is taken from chordLayouts where the table holds the call.
layoutIds(lx, ly, ivs) ==
  LET chordNodes == IF ivs \in ChordShapes /\ <<lx, ly>> \in Coords \X Coords
                      THEN (CHOOSE e \in chordLayouts : e[1] = ivs /\ e[2] = <<lx, ly>>)[3]
                      ELSE findChordLayout(lx, ly, ivs)
  IN  { noteId(chordNodes[k].lx, chordNodes[k].ly) : k \in 1..Len(chordNodes) }

\* mod(lx * 7 + ly * 4, 12) of numbers that may be NaN.
rootIdxOf(lx, ly) ==
  IF lx = NaN \/ ly = NaN THEN NaN ELSE <<mod(lx[1] * 7 + ly[1] * 4, 12)>>

\* lx + offset.dx of a number that may be NaN.
plus(x, d) == IF x = NaN THEN NaN ELSE <<x[1] + d>>

handleZoomIn ==
  /\ zoomLevel' = IF zoomLevel + 1 < MaxZoom THEN zoomLevel + 1 ELSE MaxZoom
  /\ raised' = FALSE
  /\ UNCHANGED <<activeNodeIds, rootNode, selectedChord, viewMode, lastSelectedChordId>>

\* Variant: the zoom level is bounded below by 0 only.
handleZoomOutToZero ==
  /\ zoomLevel' = IF zoomLevel - 1 > 0 THEN zoomLevel - 1 ELSE 0
  /\ raised' = FALSE
  /\ UNCHANGED <<activeNodeIds, rootNode, selectedChord, viewMode, lastSelectedChordId>>

handleZoomOut ==
  /\ zoomLevel' = IF zoomLevel - 1 > MinZoom THEN zoomLevel - 1 ELSE MinZoom
  /\ raised' = FALSE
  /\ UNCHANGED <<activeNodeIds, rootNode, selectedChord, viewMode, lastSelectedChordId>>

\* Variant: the mode is switched and the selections are kept.
handleViewModeChangeKeeping(mode) ==
  IF mode = viewMode
    THEN Returns
    ELSE /\ viewMode' = mode
         /\ raised' = FALSE
         /\ UNCHANGED <<activeNodeIds, rootNode, selectedChord, lastSelectedChordId, zoomLevel>>

handleViewModeChange(mode) ==
  IF mode = viewMode
    THEN Returns
    ELSE /\ activeNodeIds' = {}
         /\ rootNode' = <<>>
         /\ selectedChord' = <<>>
         /\ lastSelectedChordId' = <<>>
         /\ viewMode' = mode
         /\ raised' = FALSE
         /\ UNCHANGED zoomLevel

handleNoteClick(noteIndex, lx, ly) ==
  /\ rootNode' = Some([noteIndex |-> noteIndex, lx |-> lx, ly |-> ly])
  /\ IF selectedChord # <<>>
       THEN /\ activeNodeIds' = layoutIds(lx, ly, CHORDS[selectedChord[1]])
            /\ UNCHANGED selectedChord
       ELSE /\ activeNodeIds' = toggle(activeNodeIds, noteId(lx, ly))
            /\ selectedChord' = <<>>
  /\ raised' = FALSE
  /\ UNCHANGED <<zoomLevel, viewMode, lastSelectedChordId>>

handleChordClick(chordIdArg) ==
  LET parts == split(chordIdArg, ":")
  IN  IF At(parts, 1) = UNDEFINED
        THEN Throws                     \* parts[1].split on undefined
        ELSE LET coords == split(At(parts, 1), ",")
                 lx == parseInt(At(coords, 0))
                 ly == parseInt(At(coords, 1))
                 rootIdx == rootIdxOf(lx, ly)
             IN  IF rootIdx = NaN
                   THEN Throws          \* NOTES[NaN].name
                   ELSE /\ activeNodeIds' = toggle(activeNodeIds, chordIdArg)
                        /\ lastSelectedChordId' =
                             IF chordIdArg \in activeNodeIds
                               THEN lastSelectedChordId
                               ELSE Some(chordIdArg)
                        /\ raised' = FALSE
                        /\ UNCHANGED <<rootNode, selectedChord, zoomLevel, viewMode>>

handleChordSelect(chordType) ==
  IF rootNode = <<>>
    THEN Returns
    ELSE /\ activeNodeIds' = layoutIds(rootNode[1].lx, rootNode[1].ly, CHORDS[chordType])
         /\ selectedChord' = Some(chordType)
         /\ raised' = FALSE
         /\ UNCHANGED <<rootNode, zoomLevel, viewMode, lastSelectedChordId>>

handleTranspose(intervalName) ==
  IF lastSelectedChordId = <<>>
    THEN Returns
    ELSE LET parts == split(lastSelectedChordId[1], ":")
         IN  IF Len(parts) # 2
               THEN Returns
               ELSE LET type == At(parts, 0)
                        coords == split(At(parts, 1), ",")
                        lx == parseInt(At(coords, 0))
                        ly == parseInt(At(coords, 1))
                    IN  IF intervalName \notin DOMAIN INTERVAL_OFFSETS
                          THEN Returns
                          ELSE LET offset == INTERVAL_OFFSETS[intervalName]
                                   newLx == plus(lx, offset.dx)
                                   newLy == plus(ly, offset.dy)
                                   newId == chordId(type, newLx, newLy)
                                   rootIdx == rootIdxOf(newLx, newLy)
                               IN  IF rootIdx = NaN
                                     THEN Throws   \* NOTES[mod(NaN + i, 12)].name
                                     ELSE /\ activeNodeIds' = activeNodeIds \cup {newId}
                                          /\ lastSelectedChordId' = Some(newId)
                                          /\ raised' = FALSE
                                          /\ UNCHANGED <<rootNode, selectedChord,
                                                         zoomLevel, viewMode>>

\* Variant: the selected chord type is kept.
handleClearKeepingChord ==
  /\ activeNodeIds' = {}
  /\ rootNode' = <<>>
  /\ lastSelectedChordId' = <<>>
  /\ raised' = FALSE
  /\ UNCHANGED <<selectedChord, zoomLevel, viewMode>>

handleClear ==
  /\ activeNodeIds' = {}
  /\ rootNode' = <<>>
  /\ selectedChord' = <<>>
  /\ lastSelectedChordId' = <<>>
  /\ raised' = FALSE
  /\ UNCHANGED <<zoomLevel, viewMode>>

----------------------------------------------------------------------------
\* TonnetzGrid: geometry and hit testing, in exact integer arithmetic.
\* Screen positions are measured from the centre of the container, x in
\* half pixels and y in units of sqrt(3)/2 pixels, so that cos(pi/3) = 1/2
\* and sin(pi/3) = sqrt(3)/2 give integer basis vectors.  The pixel distance
\* of an offset (dx, dy) is then sqrt(dx^2 + 3 dy^2) / 2.

BASE_CELL_SIZE == 60

BASE_NODE_RADIUS == 22

\* Variant: the pan is left out of the origin.
getGeometryNoPan(zoom, p) ==
  LET cellSize == (BASE_CELL_SIZE * zoom) \div 5
  IN  [cellSize |-> cellSize,
       v1 |-> [x |-> cellSize, y |-> 0],
       v2 |-> [x |-> cellSize \div 2, y |-> -(cellSize \div 2)],
       originX |-> 0,
       originY |-> 0]

\* getGeometry(): cellSize = BASE_CELL_SIZE * zoomLevel (in half pixels:
\* 2 * 60 * zoom / 10), v1, v2, origin = centre + pan.
getGeometry(zoom, p) ==
  LET cellSize == (BASE_CELL_SIZE * zoom) \div 5
  IN  [cellSize |-> cellSize,
       v1 |-> [x |-> cellSize, y |-> 0],
       v2 |-> [x |-> cellSize \div 2, y |-> -(cellSize \div 2)],
       originX |-> p[1],
       originY |-> p[2]]

getScreenPoint(lx, ly, geom) ==
  [x |-> geom.originX + (lx * geom.v1.x) + (ly * geom.v2.x),
   y |-> geom.originY + (lx * geom.v1.y) + (ly * geom.v2.y)]

\* Four times the square of Math.hypot(dx, dy) in pixels.
Hypot2(dx, dy) == dx * dx + 3 * dy * dy

\* Variant: a tie is always rounded down.
RoundTowardsLower(num, den) ==
  LET n == IF den < 0 THEN -num ELSE num
      d == IF den < 0 THEN -den ELSE den
  IN  IF (2 * n + d) % (2 * d) = 0 THEN {((2 * n + d) \div (2 * d)) - 1}
                                    ELSE {(2 * n + d) \div (2 * d)}

\* Math.round(num / den): the nearest integer.  The quotient is computed in
\* floating point from sines and cosines, so a quotient that is exactly
\* halfway in the reals may come out on either side: both are possible.
Round(num, den) ==
  LET n == IF den < 0 THEN -num ELSE num
      d == IF den < 0 THEN -den ELSE den
      up == (2 * n + d) \div (2 * d)
  IN  IF (2 * n + d) % (2 * d) = 0 THEN {up - 1, up} ELSE {up}

\* Variant: the determinant is taken for the upward orientation of v2.
CandidatesUpward(clickX, clickY, geom) ==
  LET det == geom.v1.x * (-geom.v2.y) - geom.v2.x * geom.v1.y
      dx == clickX - geom.originX
      dy == clickY - geom.originY
  IN  { <<lx, ly>> : lx \in Round(geom.v2.y * dx - geom.v2.x * dy, det),
                     ly \in Round((-geom.v1.y) * dx + geom.v1.x * dy, det) }

\* The lattice points (lx, ly) the click may be rounded to.
Candidates(clickX, clickY, geom) ==
  LET det == geom.v1.x * geom.v2.y - geom.v2.x * geom.v1.y
      dx == clickX - geom.originX
      dy == clickY - geom.originY
  IN  { <<lx, ly>> : lx \in Round(geom.v2.y * dx - geom.v2.x * dy, det),
                     ly \in Round((-geom.v1.y) * dx + geom.v1.x * dy, det) }

\* Variant: the hit radius is the node's radius itself.
noteHitTight(clickX, clickY, lx, ly, geom, zoom) ==
  LET nodeScreen == getScreenPoint(lx, ly, geom)
  IN  100 * Hypot2(clickX - nodeScreen.x, clickY - nodeScreen.y)
        <= (2 * BASE_NODE_RADIUS * zoom) * (2 * BASE_NODE_RADIUS * zoom)

\* distToNode <= radius * 1.5, with radius = BASE_NODE_RADIUS * zoomLevel:
\* sqrt(Hypot2) / 2 <= 1.5 * 22 * zoom / 10.
noteHit(clickX, clickY, lx, ly, geom, zoom) ==
  LET nodeScreen == getScreenPoint(lx, ly, geom)
  IN  100 * Hypot2(clickX - nodeScreen.x, clickY - nodeScreen.y)
        <= (3 * BASE_NODE_RADIUS * zoom) * (3 * BASE_NODE_RADIUS * zoom)

\* Variant: the minor centroid is computed like the major one.
centroidsAllMajor(lx, ly, geom) ==
  LET anchor(k) == <<lx + ((k - 1) \div 3) - 1, ly + ((k - 1) % 3) - 1>>
      major(a) == [type |-> <<"M">>, clx |-> a[1], cly |-> a[2],
                   cx |-> geom.originX + ((3 * a[1] + 1) * geom.v1.x + (3 * a[2] + 1) * geom.v2.x) \div 3,
                   cy |-> geom.originY + ((3 * a[1] + 1) * geom.v1.y + (3 * a[2] + 1) * geom.v2.y) \div 3]
      minor(a) == [type |-> <<"m">>, clx |-> a[1], cly |-> a[2],
                   cx |-> geom.originX + ((3 * a[1] + 1) * geom.v1.x + (3 * a[2] + 1) * geom.v2.x) \div 3,
                   cy |-> geom.originY + ((3 * a[1] + 1) * geom.v1.y + (3 * a[2] + 1) * geom.v2.y) \div 3]
  IN  [k \in 1..18 |-> IF k % 2 = 1 THEN major(anchor((k + 1) \div 2))
                                      ELSE minor(anchor(k \div 2))]

\* for (dx = -1..1) for (dy = -1..1): the major centroid of the anchor
\* (lx + dx, ly + dy) at (+1/3, +1/3), then its minor centroid at
\* (+2/3, -1/3), in the order checkCentroid sees them.
centroids(lx, ly, geom) ==
  LET anchor(k) == <<lx + ((k - 1) \div 3) - 1, ly + ((k - 1) % 3) - 1>>
      major(a) == [type |-> <<"M">>, clx |-> a[1], cly |-> a[2],
                   cx |-> geom.originX + ((3 * a[1] + 1) * geom.v1.x + (3 * a[2] + 1) * geom.v2.x) \div 3,
                   cy |-> geom.originY + ((3 * a[1] + 1) * geom.v1.y + (3 * a[2] + 1) * geom.v2.y) \div 3]
      minor(a) == [type |-> <<"m">>, clx |-> a[1], cly |-> a[2],
                   cx |-> geom.originX + ((3 * a[1] + 2) * geom.v1.x + (3 * a[2] - 1) * geom.v2.x) \div 3,
                   cy |-> geom.originY + ((3 * a[1] + 2) * geom.v1.y + (3 * a[2] - 1) * geom.v2.y) \div 3]
  IN  [k \in 1..18 |-> IF k % 2 = 1 THEN major(anchor((k + 1) \div 2))
                                      ELSE minor(anchor(k \div 2))]

\* Variant: any centroid within the threshold may be reported.
closestAnyWithin(clickX, clickY, cs, geom) ==
  { k \in DOMAIN cs :
      100 * Hypot2(clickX - cs[k].cx, clickY - cs[k].cy)
        < (4 * geom.cellSize) * (4 * geom.cellSize) }

\* checkCentroid over the 18 centroids: the centroids whose distance is the
\* smallest.  Distances that are equal in the reals are computed in floating
\* point, so any centroid at the smallest distance may be the one kept.
closest(clickX, clickY, cs, geom) ==
  { k \in DOMAIN cs :
      \A j \in DOMAIN cs :
        Hypot2(clickX - cs[k].cx, clickY - cs[k].cy)
          <= Hypot2(clickX - cs[j].cx, clickY - cs[j].cy) }

\* closestId && closestDist < geom.cellSize * 0.4:
\* sqrt(Hypot2) / 2 < 0.4 * cellSize / 2 (cellSize in half pixels).
chordHit(clickX, clickY, c, geom) ==
  100 * Hypot2(clickX - c.cx, clickY - c.cy) < (4 * geom.cellSize) * (4 * geom.cellSize)

\* The calls of onNoteClick / onChordClick handlePointerUp may make for a
\* click at (clickX, clickY): NoCall when it makes none.
hitTest(clickX, clickY, zoom, p, mode) ==
  LET geom == getGeometry(zoom, p)
  IN  IF mode = "notes"
        THEN { IF noteHit(clickX, clickY, c[1], c[2], geom, zoom)
                 THEN [op |-> "handleNoteClick", key |-> "", id |-> <<>>,
                       nums |-> <<mod(c[1] * 7 + c[2] * 4, 12), c[1], c[2]>>]
                 ELSE NoCall : c \in Candidates(clickX, clickY, geom) }
        ELSE UNION { LET cs == centroids(c[1], c[2], geom)
                     IN  { IF chordHit(clickX, clickY, cs[k], geom)
                             THEN [op |-> "handleChordClick", key |-> "",
                                   id |-> chordId(cs[k].type, <<cs[k].clx>>, <<cs[k].cly>>),
                                   nums |-> <<>>]
                             ELSE NoCall : k \in closest(clickX, clickY, cs, geom) }
                   : c \in Candidates(clickX, clickY, geom) }

\* useEffect on zoomLevel: pan scaled by zoomLevel / prevZoomRef.current.
zoomScaled(p, prevZoom, zoom) == <<(p[1] * zoom) \div prevZoom, (p[2] * zoom) \div prevZoom>>

\* useEffect on rootNodeId: the pan that puts the root at the centre.
autoCenter(rootNodeId, zoom) ==
  LET strs == split(rootNodeId, ",")
      lx == parseInt(At(strs, 0))[1]
      ly == parseInt(At(strs, 1))[1]
      geom == getGeometry(zoom, <<0, 0>>)
  IN  <<-(lx * geom.v1.x + ly * geom.v2.x), -(lx * geom.v1.y + ly * geom.v2.y)>>

\* rootNodeId={rootNode ? `${rootNode.lx},${rootNode.ly}` : null}
rootNodeIdOf(rn) == IF rn = <<>> THEN <<>> ELSE Some(noteId(rn[1].lx, rn[1].ly))

\* The effects of TonnetzGrid that run after a handler changed the props.
GridEffects ==
  pan' = IF zoomLevel' # zoomLevel
           THEN zoomScaled(pan, zoomLevel, zoomLevel')
           ELSE IF rootNodeIdOf(rootNode') # <<>>
                   /\ rootNodeIdOf(rootNode') # rootNodeIdOf(rootNode)
                  THEN autoCenter(rootNodeIdOf(rootNode')[1], zoomLevel')
                  ELSE pan

\* handlePointerDown at the point a/12 v1 + b/12 v2 from the origin, when
\* that point is on the grid of half pixels.
PointerDown(a, b) ==
  /\ ~isDragging
  /\ LET geom == getGeometry(zoomLevel, pan)
     IN  /\ (a * geom.v1.x + b * geom.v2.x) % 12 = 0
         /\ (a * geom.v1.y + b * geom.v2.y) % 12 = 0
         /\ dragStart' = <<geom.originX + (a * geom.v1.x + b * geom.v2.x) \div 12,
                           geom.originY + (a * geom.v1.y + b * geom.v2.y) \div 12>>
  /\ isDragging' = TRUE
  /\ UNCHANGED <<pan, appVars, obsVars, vars, toolVars>>

\* handlePointerUp where the pointer went down (dist = 0 < 5): the hit test,
\* the handler of App it calls, and the effects that follow.
PointerUp ==
  /\ isDragging
  /\ isDragging' = FALSE
  /\ \E call \in hitTest(dragStart[1], dragStart[2], zoomLevel, pan, viewMode) :
       /\ called' = call
       /\ CASE call.op = "handleNoteClick" ->
                 handleNoteClick(call.nums[1], call.nums[2], call.nums[3])
            [] call.op = "handleChordClick" -> handleChordClick(call.id)
            [] OTHER -> Returns
  /\ GridEffects
  /\ UNCHANGED <<dragStart, vars, toolVars>>

----------------------------------------------------------------------------
\* One click on the grid.  The grid starts in a state the application can be
\* in after notes were clicked, the selection was cleared, the mode switched
\* and the zoom changed: any zoom level, either mode, the pan centred on a
\* lattice point.  A behaviour is one pointer-down and the pointer-up that
\* follows it where the pointer went down.

\* Clicks are drawn from the points a/6 v1 + b/6 v2 around the origin,
\* a and b in -MaxClick..MaxClick: lattice points, midpoints of edges and
\* centroids of triangles are among them.
MaxClick == 12

ClickRange == -MaxClick..MaxClick

\* Clicks are also drawn from the points a/12 v1 + b/12 v2 of the cell at
\* the origin, a and b in 0..MaxFineClick.  None of the clicks lies exactly
\* on a hit threshold, where the floating-point comparison could go either
\* way.
MaxFineClick == 12

\* The clicks, in twelfths.
Clicks ==
  { <<2 * a, 2 * b>> : a, b \in ClickRange } \cup ((0..MaxFineClick) \X (0..MaxFineClick))

\* The locals of findChordLayout while no call is traced.
LayoutIdle ==
  /\ rootLx = 0
  /\ rootLy = 0
  /\ intervals = <<0>>
  /\ selected = initialSelected(0, 0)
  /\ rootPC = getPitchClass(0, 0)
  /\ i = 1
  /\ targetPC = 0
  /\ queue = <<>>
  /\ visited = {}
  /\ found = NULL
  /\ head = 0
  /\ pc = "done"

GridStates ==
  /\ LayoutIdle
  /\ OtherToolsIdle
  /\ ObsInit
  /\ activeNodeIds = {}
  /\ rootNode = <<>>
  /\ selectedChord = <<>>
  /\ lastSelectedChordId = <<>>
  /\ zoomLevel \in MinZoom..MaxZoom
  /\ viewMode \in {"notes", "chords"}
  /\ \E c \in Coords : pan = autoCenter(noteId(c, -c), zoomLevel)
  /\ isDragging = FALSE
  /\ dragStart = <<0, 0>>

\* No click made yet.
Untouched == called = NoCall /\ dragStart = <<0, 0>>

FirstPointerDown == Untouched /\ \E c \in Clicks : PointerDown(c[1], c[2])

GridNext == FirstPointerDown \/ PointerUp

GridSpec == GridStates /\ [][GridNext]_allVars

----------------------------------------------------------------------------
\* The handlers of App called directly, as the grid and the side bar call
\* them and also with chord ids the grid never produces.  The side bar shows
\* the chord buttons in notes mode and the interval buttons in chords mode;
\* the grid reports notes in notes mode and chord regions in chords mode.

\* Toggled selections hold at most MaxActive ids.
MaxActive == 2

\* Transposition stays within -MaxIdCoord..MaxIdCoord in both coordinates.
MaxIdCoord == 1

ChordTypes == { <<"M">>, <<"m">> }

\* The ids the grid reports for the anchors in Coords.
GridChordIds == { chordId(t, <<x>>, <<y>>) : t \in ChordTypes, x \in Coords, y \in Coords }

\* "M2,-1": no colon.
NoColonId == <<"M", "2", ",", "-", "1">>

\* "M:a,b": coordinates that are no numbers.
NonNumericId == <<"M", ":", "a", ",", "b">>

\* "M:1": one coordinate only.
OneCoordId == <<"M", ":", "1">>

MalformedIds == { NoColonId, NonNumericId, OneCoordId }

Call(op, k, idArg, nums) == [op |-> op, key |-> k, id |-> idArg, nums |-> nums]

WithinMaxActive == Cardinality(activeNodeIds') <= MaxActive \/ selectedChord' # <<>>

NoteClick(lx, ly) ==
  /\ viewMode = "notes"
  /\ handleNoteClick(mod(lx * 7 + ly * 4, 12), lx, ly)
  /\ called' = Call("handleNoteClick", "", <<>>, <<mod(lx * 7 + ly * 4, 12), lx, ly>>)
  /\ WithinMaxActive
  /\ GridEffects
  /\ UNCHANGED <<isDragging, dragStart, vars, toolVars>>

ChordClick(chordIdArg) ==
  /\ viewMode = "chords"
  /\ handleChordClick(chordIdArg)
  /\ called' = Call("handleChordClick", "", chordIdArg, <<>>)
  /\ WithinMaxActive
  /\ GridEffects
  /\ UNCHANGED <<isDragging, dragStart, vars, toolVars>>

ChordSelect(chordType) ==
  /\ viewMode = "notes"
  /\ rootNode # <<>>
  /\ handleChordSelect(chordType)
  /\ called' = Call("handleChordSelect", chordType, <<>>, <<>>)
  /\ GridEffects
  /\ UNCHANGED <<isDragging, dragStart, vars, toolVars>>

\* The coordinates of the id to transpose stay in range, when it has any.
TransposeInRange(intervalName) ==
  LET parts == split(lastSelectedChordId[1], ":")
      coords == split(At(parts, 1), ",")
      lx == parseInt(At(coords, 0))
      ly == parseInt(At(coords, 1))
      offset == INTERVAL_OFFSETS[intervalName]
  IN  (At(parts, 1) # UNDEFINED /\ lx # NaN /\ ly # NaN)
        => /\ lx[1] + offset.dx \in -MaxIdCoord..MaxIdCoord
           /\ ly[1] + offset.dy \in -MaxIdCoord..MaxIdCoord

Transpose(intervalName) ==
  /\ viewMode = "chords"
  /\ lastSelectedChordId # <<>>
  /\ TransposeInRange(intervalName)
  /\ handleTranspose(intervalName)
  /\ called' = Call("handleTranspose", intervalName, <<>>, <<>>)
  /\ WithinMaxActive
  /\ GridEffects
  /\ UNCHANGED <<isDragging, dragStart, vars, toolVars>>

Clear ==
  /\ handleClear
  /\ called' = Call("handleClear", "", <<>>, <<>>)
  /\ GridEffects
  /\ UNCHANGED <<isDragging, dragStart, vars, toolVars>>

ViewModeChange(mode) ==
  /\ handleViewModeChange(mode)
  /\ called' = Call("handleViewModeChange", mode, <<>>, <<>>)
  /\ GridEffects
  /\ UNCHANGED <<isDragging, dragStart, vars, toolVars>>

\* The first render.
AppStart == LayoutIdle /\ GridInit /\ ObsInit /\ AppInit /\ OtherToolsIdle

\* Chords mode with a remembered chord id that no handler has written: the
\* hook state handleTranspose is to be robust against.
StaleIdStart ==
  /\ LayoutIdle
  /\ OtherToolsIdle
  /\ GridInit
  /\ ObsInit
  /\ activeNodeIds = {}
  /\ rootNode = <<>>
  /\ selectedChord = <<>>
  /\ zoomLevel = InitialZoom
  /\ viewMode = "chords"
  /\ lastSelectedChordId \in { Some(NoColonId), Some(NonNumericId) }

AnyNoteClick == \E lx, ly \in Coords : NoteClick(lx, ly)

AnyChordClick == \E chordIdArg \in GridChordIds \cup MalformedIds : ChordClick(chordIdArg)

AnyChordSelect == \E chordType \in DOMAIN CHORDS : ChordSelect(chordType)

AnyTranspose == \E intervalName \in DOMAIN INTERVAL_OFFSETS : Transpose(intervalName)

AnyViewModeChange == \E mode \in {"notes", "chords"} : ViewModeChange(mode)

HandlerNext ==
  AnyNoteClick \/ AnyChordClick \/ AnyChordSelect \/ AnyTranspose \/ Clear \/ AnyViewModeChange

\* The application from its first render.
AppSpec == AppStart /\ [][HandlerNext]_allVars

\* The handlers of chords mode from a stale chord id.
StaleIdNext == AnyChordClick \/ AnyTranspose \/ Clear

StaleIdSpec == StaleIdStart /\ [][StaleIdNext]_allVars

----------------------------------------------------------------------------
\* A session in which the side bar's zoom buttons are used as well, and in
\* which handleChordSelect is called whether or not a root is set (the
\* handler has its own test of rootNode).

ZoomIn ==
  /\ handleZoomIn
  /\ called' = Call("handleZoomIn", "", <<>>, <<>>)
  /\ GridEffects
  /\ UNCHANGED <<isDragging, dragStart, vars, toolVars>>

ZoomOut ==
  /\ handleZoomOut
  /\ called' = Call("handleZoomOut", "", <<>>, <<>>)
  /\ GridEffects
  /\ UNCHANGED <<isDragging, dragStart, vars, toolVars>>

ChordSelectCall(chordType) ==
  /\ handleChordSelect(chordType)
  /\ called' = Call("handleChordSelect", chordType, <<>>, <<>>)
  /\ GridEffects
  /\ UNCHANGED <<isDragging, dragStart, vars, toolVars>>

AnyChordSelectCall == \E chordType \in DOMAIN CHORDS : ChordSelectCall(chordType)

SessionNext ==
  AnyNoteClick \/ AnyChordSelectCall \/ Clear \/ AnyViewModeChange \/ ZoomIn \/ ZoomOut

SessionSpec == AppStart /\ [][SessionNext]_allVars

----------------------------------------------------------------------------
\* handleTranspose called as a function: with every interval name of the
\* table and one the table does not have, whether or not a chord id is
\* remembered.  The application is in chords mode, as it is right after the
\* mode button was pressed on the first render.

UnknownInterval == "Tritone"

TransposeCall(intervalName) ==
  /\ (lastSelectedChordId # <<>> /\ intervalName \in DOMAIN INTERVAL_OFFSETS)
       => TransposeInRange(intervalName)
  /\ handleTranspose(intervalName)
  /\ called' = Call("handleTranspose", intervalName, <<>>, <<>>)
  /\ WithinMaxActive
  /\ GridEffects
  /\ UNCHANGED <<isDragging, dragStart, vars, toolVars>>

AnyTransposeCall ==
  \E intervalName \in DOMAIN INTERVAL_OFFSETS \cup {UnknownInterval} : TransposeCall(intervalName)

ChordsStart ==
  /\ LayoutIdle
  /\ OtherToolsIdle
  /\ GridInit
  /\ activeNodeIds = {}
  /\ rootNode = <<>>
  /\ selectedChord = <<>>
  /\ zoomLevel = InitialZoom
  /\ viewMode = "chords"
  /\ lastSelectedChordId = <<>>
  /\ called = Call("handleViewModeChange", "chords", <<>>, <<>>)
  /\ raised = FALSE

TransposeNext == AnyChordClick \/ AnyTransposeCall \/ Clear

TransposeSpec == ChordsStart /\ [][TransposeNext]_allVars

----------------------------------------------------------------------------
\* utils/audio: playChord.  A call is traced callback by callback of
\* notes.map; the synthesizer is left out, but for the array it is given.

\* The keys of NOTE_TO_PC.
NoteNames ==
  { <<"C">>, <<"C", "#">>, <<"D", "b">>, <<"D">>, <<"D", "#">>, <<"E", "b">>,
    <<"E">>, <<"F">>, <<"F", "#">>, <<"G", "b">>, <<"G">>, <<"G", "#">>,
    <<"A", "b">>, <<"A">>, <<"A", "#">>, <<"B", "b">>, <<"B">> }

\* const NOTE_TO_PC: Record<string, number>
NOTE_TO_PC ==
  [n \in NoteNames |->
     CASE n = <<"C">> -> 0
       [] n = <<"C", "#">> -> 1
       [] n = <<"D", "b">> -> 1
       [] n = <<"D">> -> 2
       [] n = <<"D", "#">> -> 3
       [] n = <<"E", "b">> -> 3
       [] n = <<"E">> -> 4
       [] n = <<"F">> -> 5
       [] n = <<"F", "#">> -> 6
       [] n = <<"G", "b">> -> 6
       [] n = <<"G">> -> 7
       [] n = <<"G", "#">> -> 8
       [] n = <<"A", "b">> -> 8
       [] n = <<"A">> -> 9
       [] n = <<"A", "#">> -> 10
       [] n = <<"B", "b">> -> 10
       [] n = <<"B">> -> 11]

\* noteName.replace(/[0-9]/g, '')
stripDigits(str) == SelectSeq(str, LAMBDA c : ~IsDigit(c))

\* NOTE_TO_PC[cleanName] ?? 0
pitchClassOrZero(cleanName) ==
  IF cleanName \in DOMAIN NOTE_TO_PC THEN NOTE_TO_PC[cleanName] ELSE 0

\* Variant: a note as high as the previous one is not raised.
RECURSIVE raiseNotBelow(_, _, _)
raiseNotBelow(currentOctave, currentMidi, last) ==
  IF currentMidi < last
    THEN raiseNotBelow(currentOctave + 1, currentMidi + 12, last)
    ELSE [octave |-> currentOctave, midi |-> currentMidi]

\* while (currentMidi <= lastMidiValue) { currentOctave++; currentMidi += 12; }
RECURSIVE raiseAbove(_, _, _)
raiseAbove(currentOctave, currentMidi, last) ==
  IF currentMidi <= last
    THEN raiseAbove(currentOctave + 1, currentMidi + 12, last)
    ELSE [octave |-> currentOctave, midi |-> currentMidi]

\* One callback of notes.map.
MapNote ==
  /\ attack = <<>>
  /\ index < Len(notes)
  /\ LET cleanName == stripDigits(notes[index + 1])
         pcOfNote == pitchClassOrZero(cleanName)
     IN  IF index = 0
           THEN /\ lastMidiValue' = (baseOctave + 1) * 12 + pcOfNote
                /\ notesWithOctave' = Append(notesWithOctave, cleanName \o NumStr(baseOctave))
           ELSE LET placed == raiseAbove(baseOctave, (baseOctave + 1) * 12 + pcOfNote,
                                         lastMidiValue)
                IN  /\ lastMidiValue' = placed.midi
                    /\ notesWithOctave' = Append(notesWithOctave,
                                                  cleanName \o NumStr(placed.octave))
  /\ index' = index + 1
  /\ UNCHANGED <<notes, baseOctave, attack, fretVars, vars, appVars, gridVars, obsVars>>

\* s.triggerAttackRelease(notesWithOctave, '2n')
TriggerAttack ==
  /\ attack = <<>>
  /\ index = Len(notes)
  /\ attack' = Some(notesWithOctave)
  /\ UNCHANGED <<notes, baseOctave, index, lastMidiValue, notesWithOctave,
                 fretVars, vars, appVars, gridVars, obsVars>>

\* Chords have at most MaxNotes notes.
MaxNotes == 3

\* The note names a chord is made of: the keys of NOTE_TO_PC, two names
\* that carry an octave already, and a name NOTE_TO_PC does not know.
ChordNoteNames == NoteNames \cup { <<"A", "3">>, <<"G", "b", "1", "0">>, <<"H">> }

\* The default base octave and a lower one.
BaseOctaves == {2, 4}

PlayStart ==
  /\ LayoutIdle
  /\ AppInit
  /\ GridInit
  /\ ObsInit
  /\ FretboardUnmounted
  /\ notes \in SeqsUpTo(ChordNoteNames, MaxNotes)
  /\ baseOctave \in BaseOctaves
  /\ index = 0
  /\ lastMidiValue = -1
  /\ notesWithOctave = <<>>
  /\ attack = <<>>

PlayNext == MapNote \/ TriggerAttack

PlaySpec == PlayStart /\ [][PlayNext]_allVars

----------------------------------------------------------------------------
\* Fretboard: the scale controls and the highlighted points.

\* const STRINGS: the root of each string, high e first.
STRINGS == << <<"E">>, <<"B">>, <<"G">>, <<"D">>, <<"A">>, <<"E">> >>

\* const NOTE_TO_INDEX: the same table as NOTE_TO_PC.
NOTE_TO_INDEX == NOTE_TO_PC

FRET_COUNT == 15

\* const MINOR_PENT_POSITIONS: Record<number, number[][]>
MINOR_PENT_POSITIONS ==
  << << <<0, 3>>, <<0, 3>>, <<0, 2>>, <<0, 2>>, <<0, 2>>, <<0, 3>> >>,
     << <<3, 5>>, <<3, 5>>, <<2, 4>>, <<2, 5>>, <<2, 5>>, <<3, 5>> >>,
     << <<5, 7>>, <<5, 8>>, <<4, 7>>, <<5, 7>>, <<5, 7>>, <<5, 7>> >>,
     << <<7, 10>>, <<8, 10>>, <<7, 9>>, <<7, 9>>, <<7, 10>>, <<7, 10>> >>,
     << <<10, 12>>, <<10, 12>>, <<9, 12>>, <<9, 12>>, <<10, 12>>, <<10, 12>> >> >>

\* const MAJOR_TO_MINOR_MAP = { 1: 2, 2: 3, 3: 4, 4: 5, 5: 1 }
MAJOR_TO_MINOR_MAP == <<2, 3, 4, 5, 1>>

\* The position 'all': the one position that is no number.
ALL == <<>>

\* `${stringIdx}-${fret}`
pointId(stringIdx, fret) == NumStr(stringIdx) \o <<"-">> \o NumStr(fret)

\* Variant: the box is never shifted.
shiftedRootFretNever(rootFret, boxOffsets) == rootFret

\* needsOctaveShiftDown / needsOctaveShiftUp and the shift of
\* minorRootFret_String6 by an octave.
shiftedRootFret(rootFret, boxOffsets) ==
  LET needsOctaveShiftDown ==
        \E sIdx \in 1..Len(boxOffsets) : \E k \in 1..Len(boxOffsets[sIdx]) :
          rootFret + boxOffsets[sIdx][k] > FRET_COUNT
      needsOctaveShiftUp ==
        \E sIdx \in 1..Len(boxOffsets) : \E k \in 1..Len(boxOffsets[sIdx]) :
          rootFret + boxOffsets[sIdx][k] < 0
  IN  IF needsOctaveShiftDown
        THEN rootFret - 12
        ELSE IF needsOctaveShiftUp THEN rootFret + 12 ELSE rootFret

\* const highlightedPoints = useMemo(() => { ... }, [scaleRoot, scaleConfig])
computeHighlightedPoints(root, config) ==
  IF config.type = <<"none">>
    THEN {}
    ELSE
      LET rootIdx == NOTE_TO_INDEX[root]
          isMajor == config.type = <<"major_pent">>
          scaleIntervals == IF isMajor THEN <<0, 2, 4, 7, 9>> ELSE <<0, 3, 5, 7, 10>>
          scaleNoteIndices ==
            { mod(rootIdx + scaleIntervals[k], 12) : k \in 1..Len(scaleIntervals) }
          lowE_RootIdx == NOTE_TO_INDEX[<<"E">>]
          minorRootIdx == mod(rootIdx - (IF isMajor THEN 3 ELSE 0), 12)
          minorRootFret_String6 == mod(minorRootIdx - lowE_RootIdx, 12)
      IN  IF config.position = ALL
            THEN { pointId(sIdx, f) : <<sIdx, f>> \in
                     { q \in (0..(Len(STRINGS) - 1)) \X (0..FRET_COUNT) :
                         mod(NOTE_TO_INDEX[STRINGS[q[1] + 1]] + q[2], 12)
                           \in scaleNoteIndices } }
            ELSE
              LET minorPosNum == IF isMajor
                                   THEN MAJOR_TO_MINOR_MAP[config.position[1]]
                                   ELSE config.position[1]
                  boxOffsets == MINOR_PENT_POSITIONS[minorPosNum]
                  rootFret == shiftedRootFret(minorRootFret_String6, boxOffsets)
              IN  { pointId(q[1] - 1, rootFret + boxOffsets[q[1]][q[2]]) : q \in
                      { r \in (1..Len(boxOffsets)) \X (1..2) :
                          /\ rootFret + boxOffsets[r[1]][r[2]] >= 0
                          /\ rootFret + boxOffsets[r[1]][r[2]] <= FRET_COUNT } }

\* NOTES.map(n => <option value={n.name}>): the names of NOTES.
NOTES ==
  << <<"C">>, <<"C", "#">>, <<"D">>, <<"D", "#">>, <<"E">>, <<"F">>, <<"F", "#">>,
     <<"G">>, <<"G", "#">>, <<"A">>, <<"A", "#">>, <<"B">> >>

\* The values of the options of the scale select, `${type}-${position}`;
\* the type and the word all are written as one character each.
ScaleOptions ==
  { <<"none", "-", "all">> }
    \cup { <<t, "-", pos>> : t \in {"major_pent", "minor_pent"},
                              pos \in {"all", "1", "2", "3", "4", "5"} }

\* onChange of the root select: setScaleRoot(e.target.value), and the render
\* that follows.
SetScaleRoot(name) ==
  /\ scaleRoot' = name
  /\ highlightedPoints' = computeHighlightedPoints(name, scaleConfig)
  /\ UNCHANGED <<scaleConfig, audioVars, vars, appVars, gridVars, obsVars>>

\* const [type, pos] = value.split('-');
\* { type, position: pos === 'all' ? 'all' : parseInt(pos) }
scaleConfigOf(value) ==
  LET parts == split(value, "-")
      type == At(parts, 0)
      pos == At(parts, 1)
  IN  [type |-> type, position |-> IF pos = <<"all">> THEN ALL ELSE parseInt(pos)]

\* onChange of the scale select: setScaleConfig(...), and the render that
\* follows.
SetScaleConfig(value) ==
  /\ scaleConfig' = scaleConfigOf(value)
  /\ highlightedPoints' = computeHighlightedPoints(scaleRoot, scaleConfigOf(value))
  /\ UNCHANGED <<scaleRoot, audioVars, vars, appVars, gridVars, obsVars>>

AnySetScaleRoot == \E k \in 1..Len(NOTES) : SetScaleRoot(NOTES[k])

AnySetScaleConfig == \E value \in ScaleOptions : SetScaleConfig(value)

\* The first render of Fretboard.
FretboardStart ==
  /\ LayoutIdle
  /\ AppInit
  /\ GridInit
  /\ ObsInit
  /\ AudioIdle
  /\ scaleRoot = <<"A">>
  /\ scaleConfig = [type |-> <<"major_pent">>, position |-> ALL]
  /\ highlightedPoints = computeHighlightedPoints(<<"A">>, [type |-> <<"major_pent">>, position |-> ALL])

FretboardNext == AnySetScaleRoot \/ AnySetScaleConfig

FretboardSpec == FretboardStart /\ [][FretboardNext]_allVars

----------------------------------------------------------------------------
\* Reference notions the properties are stated in.

\* The pitch class of a lattice point as the data model defines it, with the
\* mathematical (never negative) remainder.
PitchOf(p) == (7 * p.lx + 4 * p.ly) % 12

\* The adjacency table: offset (dlx, dly) and its semitone delta.
NeighborTable ==
  << <<1, 0, 7>>, <<-1, 0, 5>>, <<0, 1, 4>>, <<0, -1, 8>>, <<1, -1, 3>>, <<-1, 1, 9>> >>

IsNeighbor(p, q) ==
  \E k \in 1..Len(NeighborTable) :
    q.lx = p.lx + NeighborTable[k][1] /\ q.ly = p.ly + NeighborTable[k][2]

Root == Point(rootLx, rootLy)

QueuePoints == { Point(queue[k].lx, queue[k].ly) : k \in 1..Len(queue) }

SelectedPoints == { selected[k] : k \in 1..Len(selected) }

\* The lattice points the call has applied getPitchClass and getNeighbors to
\* in reaching this state: the embedded points and the point just dequeued.
PointsInPlay ==
  SelectedPoints
    \cup (IF head > 0 THEN {Point(queue[head].lx, queue[head].ly)} ELSE {})

----------------------------------------------------------------------------
\* C1: every point after the root in the embedding is one of the six
\* neighbours of some point earlier in the embedding.
C1_Connectivity ==
  \A k \in 2..Len(selected) :
    \E j \in 1..(k - 1) : IsNeighbor(selected[j], selected[k])

\* C2: whenever the embedding changes, exactly one point is appended, and
\* its pitch class is that of the root plus the interval of the current
\* iteration, modulo 12.
C2_PitchCorrect ==
  [][ selected' # selected =>
        /\ Len(selected') = Len(selected) + 1
        /\ SubSeq(selected', 1, Len(selected)) = selected
        /\ PitchOf(selected'[Len(selected')])
             = (PitchOf(Root) + intervals[i + 1]) % 12 ]_vars

\* A call from a root left of the origin with a negative interval has
\* returned three points.
C2_Witness ==
  /\ pc = "done"
  /\ rootLx < 0
  /\ \E k \in 2..Len(intervals) : intervals[k] < 0
  /\ Len(selected) = 3

\* C3: root (0,0) with the major triad [0,4,7] returns [(0,0),(0,1),(1,0)].
C3_MajorTriad ==
  (pc = "done" /\ Root = Point(0, 0) /\ intervals = <<0, 4, 7>>)
    => selected = << Point(0, 0), Point(0, 1), Point(1, 0) >>

C3_Witness == pc = "done" /\ Root = Point(0, 0) /\ intervals = <<0, 4, 7>>

\* C4: root (0,0) with the minor triad [0,3,7] returns [(0,0),(1,-1),(1,0)].
C4_MinorTriad ==
  (pc = "done" /\ Root = Point(0, 0) /\ intervals = <<0, 3, 7>>)
    => selected = << Point(0, 0), Point(1, -1), Point(1, 0) >>

C4_Witness == pc = "done" /\ Root = Point(0, 0) /\ intervals = <<0, 3, 7>>

\* C5: for every lattice point the search computes with, getPitchClass is in
\* 0..11, one step in lx adds 7 and one step in ly adds 4, modulo 12.
C5_Periodicity ==
  \A p \in PointsInPlay :
    LET c == getPitchClass(p.lx, p.ly)
    IN  /\ c \in 0..11
        /\ getPitchClass(p.lx + 1, p.ly) = (c + 7) % 12
        /\ getPitchClass(p.lx, p.ly + 1) = (c + 4) % 12

\* The search has dequeued a point with both coordinates negative, where the
\* remainder of lx*7 + ly*4 is negative.
C5_Witness ==
  /\ head > 0
  /\ queue[head].lx < 0
  /\ queue[head].ly < 0
  /\ Rem(queue[head].lx * 7 + queue[head].ly * 4, 12) < 0

\* C6: getNeighbors returns exactly the six table offsets in table order, and
\* the k-th neighbour's pitch class is the point's plus the k-th delta.
C6_NeighborTable ==
  \A p \in PointsInPlay :
    LET ns == getNeighbors(p.lx, p.ly)
    IN  /\ Len(ns) = 6
        /\ \A k \in 1..6 :
             /\ ns[k] = Point(p.lx + NeighborTable[k][1], p.ly + NeighborTable[k][2])
             /\ getPitchClass(ns[k].lx, ns[k].ly)
                  = (getPitchClass(p.lx, p.ly) + NeighborTable[k][3]) % 12

\* The search has dequeued a point at depth 2 or more on the negative side
\* and enqueued neighbours of it.
C6_Witness ==
  /\ head > 0
  /\ queue[head].dist >= 2
  /\ queue[head].lx < 0
  /\ queue[head].ly < 0
  /\ \E k \in 1..Len(queue) : queue[k].dist = queue[head].dist + 1

\* C7: the points of the embedding are pairwise distinct.
C7_NoReselection ==
  \A j, k \in 1..Len(selected) : j # k => selected[j] # selected[k]

\* A call whose intervals after the first are 12 and 0 has returned three
\* points of the root's pitch class.
C7_Witness ==
  /\ pc = "done"
  /\ intervals = <<0, 12, 0>>
  /\ Len(selected) = 3
  /\ \A k \in 1..3 : PitchOf(selected[k]) = PitchOf(Root)

QueueBounded ==
  /\ Cardinality(QueuePoints) = Len(queue)
  /\ pc \in {"while", "if"} => QueuePoints \cap SelectedPoints = {}
  /\ \A k \in 1..Len(queue) : queue[k].dist \in 1..4
  /\ head <= Len(queue)

\* The lattice points within 4 steps of one point, itself excluded
\* (6 + 12 + 18 + 24), for each point an embedding of this call can hold.
QueueCap == (6 + 12 + 18 + 24) * Len(intervals)

\* An upper bound of the steps the call has left.
StepsLeft ==
  LET L == Len(intervals)
      B == QueueCap + 3
  IN  CASE pc = "done"  -> 0
        [] pc = "for"   -> 1 + B * (IF i < L THEN L - i ELSE 0)
        [] pc = "while" -> 1 + B * (L - i - 1) + 2 + (QueueCap - head)
        [] pc = "if"    -> 1 + B * (L - i - 1) + 1

EverySearchFinds == pc = "if" => found # NULL

----------------------------------------------------------------------------
\* Distances on the lattice.

Abs(n) == IF n < 0 THEN -n ELSE n

Max2(a, b) == IF a >= b THEN a ELSE b

\* The number of neighbour steps between two lattice points.
HexDist(p, q) ==
  LET dx == q.lx - p.lx
      dy == q.ly - p.ly
  IN  Max2(Max2(Abs(dx), Abs(dy)), Abs(dx + dy))

\* The number of neighbour steps from the embedding to p.
DistToSelected(p) ==
  LET ds == { HexDist(selected[k], p) : k \in 1..Len(selected) }
  IN  CHOOSE d \in ds : \A e \in ds : d <= e

\* The lattice points within 4 steps (in each coordinate) of the embedding.
NearPoints ==
  { Point(selected[k].lx + dx, selected[k].ly + dy) :
      k \in 1..Len(selected), dx \in -4..4, dy \in -4..4 }

\* The pitch class the current iteration looks for.
TargetPitch == (PitchOf(Root) + intervals[i + 1]) % 12

\* C19: the point a search accepts is, among the lattice points of the target
\* pitch class that are not yet embedded, one with the fewest neighbour steps
\* to the embedding; so it is a neighbour of an embedded point whenever some
\* neighbour of an embedded point has the target pitch class.
C19_ClosestMatch ==
  (pc = "if" /\ found # NULL) =>
    LET fp == Point(found[1].lx, found[1].ly)
    IN  \A p \in NearPoints :
          (p \notin SelectedPoints /\ PitchOf(p) = TargetPitch)
            => DistToSelected(fp) <= DistToSelected(p)

\* A search over an embedding of two or more points has accepted a point
\* three steps away.
C19_Witness ==
  /\ pc = "if"
  /\ found # NULL
  /\ Len(selected) >= 2
  /\ DistToSelected(Point(found[1].lx, found[1].ly)) = 3

\* The neighbours of p, in table order, that lie outside the embedding.
FreeNeighbors(p) ==
  SelectSeq([k \in 1..Len(NeighborTable) |->
               Point(p.lx + NeighborTable[k][1], p.ly + NeighborTable[k][2])],
            LAMBDA n : n \notin SelectedPoints)

\* Index of the first embedded point that q is a neighbour of, with the most
\* recently embedded point counted first (0).
SeedRank(q) ==
  IF IsNeighbor(selected[Len(selected)], q)
    THEN 0
    ELSE CHOOSE k \in 1..Len(selected) :
           /\ IsNeighbor(selected[k], q)
           /\ \A j \in 1..(k - 1) : ~IsNeighbor(selected[j], q)

\* C20: the seeds are the free neighbours of the most recently embedded point
\* in table order, then those of the earlier points in embedding order; and
\* when a free neighbour of the most recently embedded point has the target
\* pitch class, the search accepts the first such neighbour.
C20_PrioritySeeding ==
  /\ (pc = "while" /\ head = 0) =>
       LET first == FreeNeighbors(selected[Len(selected)])
       IN  /\ Len(queue) >= Len(first)
           /\ \A k \in 1..Len(first) :
                Point(queue[k].lx, queue[k].ly) = first[k]
           /\ \A k \in 1..Len(queue) : queue[k].dist = 1
           /\ \A j, k \in 1..Len(queue) :
                j < k => SeedRank(Point(queue[j].lx, queue[j].ly))
                           <= SeedRank(Point(queue[k].lx, queue[k].ly))
  /\ (pc = "if" /\ found # NULL) =>
       LET hits == SelectSeq(FreeNeighbors(selected[Len(selected)]),
                             LAMBDA n : PitchOf(n) = TargetPitch)
       IN  hits # <<>> => Point(found[1].lx, found[1].ly) = hits[1]

\* A search has accepted a neighbour of the most recently embedded point
\* while another free point, a neighbour of an earlier embedded point, has
\* the target pitch class too.
C20_Witness ==
  /\ pc = "if"
  /\ found # NULL
  /\ IsNeighbor(selected[Len(selected)], Point(found[1].lx, found[1].ly))
  /\ \E k \in 1..(Len(selected) - 1) :
       \E n \in { Point(selected[k].lx + NeighborTable[m][1],
                        selected[k].ly + NeighborTable[m][2]) : m \in 1..6 } :
         /\ n \notin SelectedPoints
         /\ n # Point(found[1].lx, found[1].ly)
         /\ PitchOf(n) = TargetPitch

\* The function and the step-by-step actions return the same embedding.
LayoutAgrees == pc = "done" => selected = findChordLayout(rootLx, rootLy, intervals)

----------------------------------------------------------------------------
\* Further properties of findChordLayout.

C22_NoSkippedInterval ==
  (pc = "done" /\ intervals \in ChordShapes) =>
    /\ Len(selected) = Len(intervals)
    /\ \A k \in 1..Len(intervals) :
         PitchOf(selected[k]) = (PitchOf(Root) + intervals[k]) % 12

\* The six intervals of Maj13 embedded from a root left of the origin.
C22_Witness ==
  /\ pc = "done"
  /\ intervals = CHORDS.Maj13
  /\ rootLx < 0
  /\ Len(selected) = 6

\* The points of an embedding moved by (dx, dy).
Shifted(points, dx, dy) ==
  [k \in 1..Len(points) |-> Point(points[k].lx + dx, points[k].ly + dy)]

\* C23: the embedding returned for the root (rx, ry) is the embedding
\* returned for the root (0, 0) with (rx, ry) added to every point, position
\* by position.
C23_TranslationEquivariance ==
  pc = "done" => selected = Shifted(findChordLayout(0, 0, intervals), rootLx, rootLy)

\* A call from the root (-1, 1) has returned three points or more.
C23_Witness ==
  /\ pc = "done"
  /\ rootLx = -1
  /\ rootLy = 1
  /\ Len(selected) >= 3

----------------------------------------------------------------------------
\* Properties of the handlers of App.

HasColon(str) == \E k \in 1..Len(str) : str[k] = ":"

\* "M:lx,ly" or "m:lx,ly" with integer coordinates (up to three digits).
IdCoordRange == -(MaxIdCoord + MaxCoord + 1)..(MaxIdCoord + MaxCoord + 1)

WellFormedChordIds ==
  { chordId(t, <<x>>, <<y>>) : t \in ChordTypes, x \in IdCoordRange, y \in IdCoordRange }

\* C15: handleChordClick with an id that has no ':' (such as "M2,-1") is a
\* no-op: it does not raise and changes no hook.
C15_NoColonIsNoOp ==
  [][(called'.op = "handleChordClick" /\ ~HasColon(called'.id))
       => (~raised' /\ UNCHANGED appVars)]_allVars

C17_ReEmbedAtNewRoot ==
  [][(called'.op = "handleNoteClick" /\ selectedChord # <<>>)
       => \E lx \in {called'.nums[2]}, ly \in {called'.nums[3]} :
            \E nodes \in {findChordLayout(lx, ly, CHORDS[selectedChord[1]])} :
              /\ rootNode' = Some([noteIndex |-> PitchOf(Point(lx, ly)), lx |-> lx, ly |-> ly])
              /\ activeNodeIds' = { noteId(nodes[k].lx, nodes[k].ly) : k \in 1..Len(nodes) }
              /\ selectedChord' = selectedChord]_allVars

\* A minor triad selected at some root and then re-embedded at (1,0) by a
\* click: (1,0), (2,-1), (2,0).
C17_Witness ==
  /\ called.op = "handleNoteClick"
  /\ selectedChord = Some("Minor")
  /\ rootNode # <<>>
  /\ rootNode[1].lx = 1 /\ rootNode[1].ly = 0
  /\ activeNodeIds = { noteId(1, 0), noteId(2, -1), noteId(2, 0) }

\* The coordinates note ids are decoded over: the roots and what a chord
\* embedding can add to them.
NoteCoordRange == -(MaxCoord + MaxDist)..(MaxCoord + MaxDist)

\* Every lattice point of the range with its note id.
NoteIdTable == { <<noteId(x, y), x, y>> : x \in NoteCoordRange, y \in NoteCoordRange }

\* Every chord region of the range with its id.
ChordIdTable ==
  { <<chordId(t, <<x>>, <<y>>), t, x, y>> : t \in ChordTypes, x \in IdCoordRange, y \in IdCoordRange }

\* The points whose note id is the given string.
NotesNamed(id) == { e \in NoteIdTable : e[1] = id }

\* The chord regions whose id is the given string.
ChordsNamed(id) == { e \in ChordIdTable : e[1] = id }

\* A chord region id parsed as handleChordClick and handleTranspose parse it.
ParsedChordId(id) ==
  LET parts == split(id, ":")
      coords == split(At(parts, 1), ",")
  IN  <<At(parts, 0), parseInt(At(coords, 0)), parseInt(At(coords, 1))>>

\* C18: every id the application holds names exactly one thing: a note id
\* "lx,ly" exactly one lattice point, a chord region id "M:lx,ly" / "m:lx,ly"
\* exactly one type and anchor, negative coordinates included, and no string
\* is both; parsing a chord region id (split on ':', split on ',', parseInt)
\* gives back the type and the anchor it was formatted from.
C18_IdFormats ==
  /\ viewMode = "notes" =>
       \A id \in activeNodeIds :
         Cardinality(NotesNamed(id)) = 1 /\ ChordsNamed(id) = {}
  /\ viewMode = "chords" =>
       \A id \in activeNodeIds \cup { lastSelectedChordId[k] : k \in 1..Len(lastSelectedChordId) } :
         /\ NotesNamed(id) = {}
         /\ \E cs \in {ChordsNamed(id)} :
              /\ Cardinality(cs) = 1
              /\ \A c \in cs : ParsedChordId(id) = <<c[2], <<c[3]>>, <<c[4]>>>>

\* The minor region anchored at (-1,1), reached by a transposition.
C18_Witness ==
  /\ viewMode = "chords"
  /\ called.op = "handleTranspose"
  /\ lastSelectedChordId = Some(<<"m", ":", "-", "1", ",", "1">>)
  /\ <<"m", ":", "-", "1", ",", "1">> \in activeNodeIds

\* C24: whenever a chord type is selected a root is set and activeNodeIds is
\* exactly the set of ids of findChordLayout at the root for the intervals of
\* that chord type, the root's own id among them; and handleChordSelect
\* called while no root is set changes no hook.
C24_ActiveChord ==
  /\ [](selectedChord # <<>> =>
          /\ rootNode # <<>>
          /\ \E nodes \in {findChordLayout(rootNode[1].lx, rootNode[1].ly,
                                            CHORDS[selectedChord[1]])} :
               activeNodeIds = { noteId(nodes[k].lx, nodes[k].ly) : k \in 1..Len(nodes) }
          /\ noteId(rootNode[1].lx, rootNode[1].ly) \in activeNodeIds)
  /\ [][(called'.op = "handleChordSelect" /\ rootNode = <<>>)
          => (UNCHANGED appVars /\ ~raised')]_allVars

\* Dom9 is selected at the root (-1,1) and the zoom level was changed since.
C24_Witness ==
  /\ selectedChord = Some("Dom9")
  /\ rootNode # <<>>
  /\ rootNode[1].lx = -1 /\ rootNode[1].ly = 1
  /\ Cardinality(activeNodeIds) = 5
  /\ called.op = "handleZoomOut"
  /\ zoomLevel < InitialZoom

\* C25: in notes mode activeNodeIds holds ids of notes only, in chords mode
\* ids of chord regions only; handleViewModeChange to the other mode empties
\* activeNodeIds, sets rootNode, selectedChord and lastSelectedChordId to null
\* and sets the mode, and to the current mode changes no hook.
C25_SelectionKinds ==
  /\ [](viewMode = "notes" =>
          \A id \in activeNodeIds : NotesNamed(id) # {} /\ ~HasColon(id))
  /\ [](viewMode = "chords" =>
          \A id \in activeNodeIds : ChordsNamed(id) # {} /\ HasColon(id))
  /\ [][called'.op = "handleViewModeChange" =>
          IF called'.key # viewMode
            THEN /\ viewMode' = called'.key
                 /\ activeNodeIds' = {}
                 /\ rootNode' = <<>>
                 /\ selectedChord' = <<>>
                 /\ lastSelectedChordId' = <<>>
            ELSE UNCHANGED appVars]_allVars

\* Chord regions were selected, the mode was switched to notes, and two
\* notes are selected now.
C25_Witness ==
  /\ viewMode = "notes"
  /\ called.op = "handleNoteClick"
  /\ activeNodeIds = { noteId(-1, 1), noteId(0, -1) }
  /\ zoomLevel = InitialZoom
  /\ pan # <<0, 0>>

Semitones ==
  [name \in {"5th", "4th", "Maj 3rd", "Min 3rd", "Maj 2nd", "Min 2nd"} |->
     CASE name = "5th"     -> 7
       [] name = "4th"     -> 5
       [] name = "Maj 3rd" -> 4
       [] name = "Min 3rd" -> 3
       [] name = "Maj 2nd" -> 2
       [] name = "Min 2nd" -> 1]

\* C27: handleTranspose with one of the six interval names and a remembered
\* well-formed chord id adds the id of a chord of the same type whose anchor
\* pitch class is the old anchor's plus the interval's semitones modulo 12,
\* keeps the ids already active and remembers the new id; with an unknown
\* interval name or no remembered id it changes no hook.
C27_TransposeIntervals ==
  [][called'.op = "handleTranspose" =>
       IF lastSelectedChordId # <<>> /\ called'.key \in DOMAIN Semitones
         THEN /\ lastSelectedChordId' # <<>>
              /\ \E old \in ChordsNamed(lastSelectedChordId[1]) :
                   \E new \in ChordsNamed(lastSelectedChordId'[1]) :
                     /\ new[2] = old[2]
                     /\ PitchOf(Point(new[3], new[4]))
                          = (PitchOf(Point(old[3], old[4])) + Semitones[called'.key]) % 12
              /\ activeNodeIds' = activeNodeIds \cup {lastSelectedChordId'[1]}
              /\ ~raised'
         ELSE UNCHANGED appVars /\ ~raised']_allVars

\* The minor chord at (0,-1) transposed by a minor second to (-1,1), both
\* ids active.
C27_Witness ==
  /\ called.op = "handleTranspose"
  /\ called.key = "Min 2nd"
  /\ lastSelectedChordId = Some(chordId(<<"m">>, <<-1>>, <<1>>))
  /\ activeNodeIds = { chordId(<<"m">>, <<0>>, <<-1>>), chordId(<<"m">>, <<-1>>, <<1>>) }

\* C28: the zoom level stays within 0.4 and 2.5 (4 and 25 tenths), a zoom
\* step changes it by 0.1 or, at a bound, not at all; so the cell size is
\* positive and the determinant of the basis is not zero.
C28_ZoomBounds ==
  /\ [](/\ zoomLevel >= 4
        /\ zoomLevel <= 25
        /\ \E geom \in {getGeometry(zoomLevel, pan)} :
             /\ geom.cellSize > 0
             /\ geom.v1.x * geom.v2.y - geom.v2.x * geom.v1.y # 0)
  /\ [][/\ called'.op = "handleZoomIn"
            => zoomLevel' = IF zoomLevel < 25 THEN zoomLevel + 1 ELSE zoomLevel
        /\ called'.op = "handleZoomOut"
            => zoomLevel' = IF zoomLevel > 4 THEN zoomLevel - 1 ELSE zoomLevel]_allVars

\* Zoom-out pressed at zoom 0.4, with the pan centred on a note.
C28_Witness ==
  /\ called.op = "handleZoomOut"
  /\ zoomLevel = 4
  /\ pan # <<0, 0>>
  /\ rootNode # <<>>

----------------------------------------------------------------------------
\* Properties of the hit test of TonnetzGrid, over one click.  A step taken
\* while isDragging holds is the pointer-up of the click at dragStart; zoomLevel
\* and pan are those of the hit test, called' is the call it made.

\* The lattice points the clicks of the range can be near.
NearCoords == -((MaxClick \div 6) + 1)..((MaxClick \div 6) + 1)

\* The screen position of the lattice point (x/3, y/3), from the origin:
\* x/3 steps of cellSize to the right, y/3 steps of cellSize at 60 degrees
\* upwards (half pixels across, sqrt(3)/2 pixels down).
ScreenOfThirds(x, y) ==
  <<pan[1] + 4 * zoomLevel * x + 2 * zoomLevel * y, pan[2] - 2 * zoomLevel * y>>

ScreenOf(lx, ly) == ScreenOfThirds(3 * lx, 3 * ly)

NoteCall(lx, ly) ==
  [op |-> "handleNoteClick", key |-> "", id |-> <<>>,
   nums |-> <<PitchOf(Point(lx, ly)), lx, ly>>]

\* dragStart is exactly midway between the lattice points p and q.
MidwayBetween(p, q) ==
  /\ 2 * dragStart[1] = ScreenOf(p[1], p[2])[1] + ScreenOf(q[1], q[2])[1]
  /\ 2 * dragStart[2] = ScreenOf(p[1], p[2])[2] + ScreenOf(q[1], q[2])[2]

\* C11: in notes mode a click exactly midway between two adjacent lattice
\* nodes calls onNoteClick for no node.
C11_MidwayNoHit ==
  [][(isDragging /\ viewMode = "notes")
       => \A p, q \in NearCoords \X NearCoords :
            (IsNeighbor(Point(p[1], p[2]), Point(q[1], q[2])) /\ MidwayBetween(p, q))
              => called' = NoCall]_allVars

\* C11 as it holds: the midpoint of two adjacent nodes is 30 x zoom pixels
\* from both, within the hit radius 1.5 x 22 x zoom = 33 x zoom.  Midway
\* between (lx,ly) and its neighbour (lx+1,ly) or (lx,ly+1) the click is a
\* hit for one of the two nodes; midway between (lx,ly) and (lx+1,ly-1) both
\* coordinates are rounded at a tie, and the click is a hit for one of the two
\* nodes or, when it is rounded to (lx,ly-1) or (lx+1,ly), no hit.
C11_MidwayHit ==
  [][(isDragging /\ viewMode = "notes")
       => \A p \in NearCoords \X NearCoords :
            /\ \A q \in { <<p[1] + 1, p[2]>>, <<p[1], p[2] + 1>> } :
                 MidwayBetween(p, q)
                   => called' \in { NoteCall(p[1], p[2]), NoteCall(q[1], q[2]) }
            /\ MidwayBetween(p, <<p[1] + 1, p[2] - 1>>)
                 => called' \in { NoteCall(p[1], p[2]), NoteCall(p[1] + 1, p[2] - 1), NoCall }]_allVars

\* A click midway between (0,0) and (1,0) at the smallest zoom, pan (0,0),
\* that reported (1,0).
C11_Witness ==
  /\ ~isDragging
  /\ zoomLevel = MinZoom
  /\ dragStart = <<6 * MinZoom, 0>>
  /\ called = NoteCall(1, 0)

\* C12: in notes mode a click at the exact screen projection of a lattice
\* point reports a note hit for that point with its pitch class; for (2,-1)
\* at zoom 1 and pan (0,0) it calls onNoteClick(10, 2, -1).
C12_NodeHit ==
  [][(isDragging /\ viewMode = "notes")
       => \A p \in NearCoords \X NearCoords :
            dragStart = ScreenOf(p[1], p[2]) => called' = NoteCall(p[1], p[2])]_allVars

\* The click at the projection (90, -51.96) pixels of (2,-1) at zoom 1 and
\* pan (0,0), reported as onNoteClick(10, 2, -1).
C12_Witness ==
  /\ ~isDragging
  /\ zoomLevel = InitialZoom
  /\ dragStart = <<180, 60>>
  /\ called.op = "handleNoteClick"
  /\ called.nums = <<10, 2, -1>>

\* C13: at every zoom level from 0.4 to 2.5 and every pan, the inverse
\* projection (the inverse of the basis matrix, then rounding) of
\* getScreenPoint(lx, ly, geom) is exactly (lx, ly).
C13_RoundTrip ==
  \E geom \in {getGeometry(zoomLevel, pan)} :
    \A lx, ly \in NearCoords :
      \E s \in {getScreenPoint(lx, ly, geom)} :
        Candidates(s.x, s.y, geom) = { <<lx, ly>> }

\* At zoom 2.5 with the pan centred on (1,-1), a click at the projection of
\* (-1,1) was rounded to (-1,1).
C13_Witness ==
  /\ ~isDragging
  /\ zoomLevel = MaxZoom
  /\ dragStart = <<-300, -300>>
  /\ called = NoteCall(-1, 1)

\* The click in twelfths of the lattice: dragStart is a/12 v1 + b/12 v2
\* from the origin.
ClickTwelfths ==
  LET relX == dragStart[1] - pan[1]
      relY == dragStart[2] - pan[2]
  IN  <<(relX + relY) \div zoomLevel, (-2 * relY) \div zoomLevel>>

\* The lattice points nearest to the click in each coordinate (both, at a
\* tie): the rounded candidate node.
RoundedNodes ==
  { p \in NearCoords \X NearCoords :
      /\ Abs(12 * p[1] - ClickTwelfths[1]) <= 6
      /\ Abs(12 * p[2] - ClickTwelfths[2]) <= 6 }

\* The major centroid of anchor (ax, ay) is the lattice point
\* (ax + 1/3, ay + 1/3), the minor one (ax + 2/3, ay - 1/3).
Centroid(type, ax, ay) ==
  [type |-> type, ax |-> ax, ay |-> ay,
   x3 |-> IF type = <<"M">> THEN 3 * ax + 1 ELSE 3 * ax + 2,
   y3 |-> IF type = <<"M">> THEN 3 * ay + 1 ELSE 3 * ay - 1]

\* The 18 centroids of the 3x3 anchors around p.
CentroidsAround(p) ==
  { Centroid(t, p[1] + dx, p[2] + dy) : t \in ChordTypes, dx \in -1..1, dy \in -1..1 }

\* Four times the squared pixel distance from the click to a centroid.
CentroidDist2(e) ==
  LET s == ScreenOfThirds(e.x3, e.y3)
  IN  (dragStart[1] - s[1]) * (dragStart[1] - s[1])
        + 3 * (dragStart[2] - s[2]) * (dragStart[2] - s[2])

\* The distance is below 0.4 x cellSize = 2.4 x zoom pixels (zoom in tenths).
WithinChordThreshold(d2) == 100 * d2 < 2304 * zoomLevel * zoomLevel

ChordCall(e) ==
  [op |-> "handleChordClick", key |-> "",
   id |-> e.type \o <<":">> \o NumStr(e.ax) \o <<",">> \o NumStr(e.ay), nums |-> <<>>]

\* C14: in chords mode a click reports a chord region iff the smallest
\* distance from the click to the 18 centroids of the 3x3 anchors around the
\* rounded candidate node is below 0.4 x cellSize, and the id reported names a
\* centroid at that smallest distance; a click exactly on a centroid reports
\* that centroid's id.
C14_ChordRegionHit ==
  [][(isDragging /\ viewMode = "chords")
       => /\ \E p \in RoundedNodes :
               \E nearest \in { e \in CentroidsAround(p) :
                                  \A f \in CentroidsAround(p) :
                                    CentroidDist2(e) <= CentroidDist2(f) } :
                 IF WithinChordThreshold(CentroidDist2(nearest))
                   THEN called' = ChordCall(nearest)
                   ELSE called' = NoCall
          /\ \A t \in ChordTypes, ax, ay \in NearCoords :
               dragStart = ScreenOfThirds(Centroid(t, ax, ay).x3, Centroid(t, ax, ay).y3)
                 => called' = ChordCall(Centroid(t, ax, ay))]_allVars

\* At zoom 2.5, pan (0,0), a click on the minor centroid of anchor (0,0)
\* reported "m:0,0".
C14_Witness ==
  /\ ~isDragging
  /\ viewMode = "chords"
  /\ zoomLevel = MaxZoom
  /\ pan = <<0, 0>>
  /\ dragStart = <<150, 50>>
  /\ called.op = "handleChordClick"
  /\ called.id = <<"m", ":", "0", ",", "0">>

----------------------------------------------------------------------------
\* Properties of playChord.

\* The pitch class a note name stands for: its letter, raised by a sharp
\* and lowered by a flat.
LetterPitch(c) ==
  CASE c = "C" -> 0 [] c = "D" -> 2 [] c = "E" -> 4 [] c = "F" -> 5
    [] c = "G" -> 7 [] c = "A" -> 9 [] c = "B" -> 11

NamePitchClass(name) ==
  (LetterPitch(name[1])
     + (IF Len(name) = 2 /\ name[2] = "#" THEN 1 ELSE 0)
     - (IF Len(name) = 2 /\ name[2] = "b" THEN 1 ELSE 0)) % 12

\* The octave and the MIDI value of a note written as name and octave.
NoteOctave(str) == digitsFrom(SelectSeq(str, IsDigit), 1, 0)

NoteMidi(str) == (NoteOctave(str) + 1) * 12 + NamePitchClass(stripDigits(str))

KnownNames == \A k \in 1..Len(notes) : stripDigits(notes[k]) \in NoteNames

\* C29: for a list of known note names, the notes playChord has placed so
\* far are one per name read, each with the name (so the pitch class) it was
\* given and at baseOctave or above, the first at baseOctave; their MIDI
\* values are strictly increasing, and each note after the first is at
\* baseOctave or at most 12 semitones above the note before it, which is the
\* lowest octave that puts it above that note.  The synthesizer is given
\* these notes, one for each name.
C29_AscendingVoicing ==
  KnownNames =>
    /\ Len(notesWithOctave) = index
    /\ \A k \in 1..Len(notesWithOctave) :
         /\ stripDigits(notesWithOctave[k]) = stripDigits(notes[k])
         /\ NoteMidi(notesWithOctave[k]) % 12 = NamePitchClass(stripDigits(notes[k]))
         /\ NoteOctave(notesWithOctave[k]) >= baseOctave
         /\ k = 1 => NoteOctave(notesWithOctave[k]) = baseOctave
         /\ k > 1 =>
              /\ NoteMidi(notesWithOctave[k]) > NoteMidi(notesWithOctave[k - 1])
              /\ \/ NoteOctave(notesWithOctave[k]) = baseOctave
                 \/ NoteMidi(notesWithOctave[k]) - 12 <= NoteMidi(notesWithOctave[k - 1])
    /\ attack # <<>> =>
         /\ attack[1] = notesWithOctave
         /\ Len(attack[1]) = Len(notes)

\* B, A3, G from octave 4 were given to the synthesizer as B4, A5, G6.
C29_Witness ==
  /\ baseOctave = 4
  /\ notes = << <<"B">>, <<"A", "3">>, <<"G">> >>
  /\ attack = Some(<< <<"B", "4">>, <<"A", "5">>, <<"G", "6">> >>)

----------------------------------------------------------------------------
\* Properties of the highlighted points of Fretboard.

\* The pitch classes of the open strings, high e first.
OpenStringPitch == <<4, 11, 7, 2, 9, 4>>

\* The string and the fret a point id names.
PointString(id) == parseInt(At(split(id, "-"), 0))[1]

PointFret(id) == parseInt(At(split(id, "-"), 1))[1]

\* The semitones above the root of the notes of the two pentatonic scales.
PentatonicSteps(type) ==
  IF type = <<"major_pent">> THEN {0, 2, 4, 7, 9} ELSE {0, 3, 5, 7, 10}

IsBoxPosition ==
  /\ scaleConfig.type \in { <<"major_pent">>, <<"minor_pent">> }
  /\ scaleConfig.position # ALL

\* C30: with a pentatonic scale and a position 1..5 selected, exactly 12
\* points are highlighted, two on each of the six strings, all on frets
\* 0..15; each is a note of the scale of the selected root, and is
\* highlighted as well when the whole neck is selected for the same root
\* and type.
C30_BoxPositions ==
  IsBoxPosition =>
    /\ scaleConfig.position[1] \in 1..5
    /\ Cardinality(highlightedPoints) = 12
    /\ \A p \in highlightedPoints : PointString(p) \in 0..5 /\ PointFret(p) \in 0..15
    /\ \A s \in 0..5 : Cardinality({ p \in highlightedPoints : PointString(p) = s }) = 2
    /\ \A p \in highlightedPoints :
         (OpenStringPitch[PointString(p) + 1] + PointFret(p) + 12
            - NamePitchClass(scaleRoot)) % 12 \in PentatonicSteps(scaleConfig.type)
    /\ highlightedPoints \subseteq
         computeHighlightedPoints(scaleRoot, [type |-> scaleConfig.type, position |-> ALL])

\* D# minor pentatonic, position 5: the box was moved an octave down, and
\* its points on the low E string are frets 9 and 11.
C30_Witness ==
  /\ scaleRoot = <<"D", "#">>
  /\ scaleConfig = [type |-> <<"minor_pent">>, position |-> <<5>>]
  /\ pointId(5, 9) \in highlightedPoints
  /\ pointId(5, 11) \in highlightedPoints

====
